---- MODULE Spec2Model ----
(***************************************************************************)
(* The merge / clean / dedupe pipeline of agents/merge_and_clean.py, the   *)
(* field helpers of agents/utils.py and the page loops of the three        *)
(* scrapers of agents/.                                                    *)
(*                                                                         *)
(* A Python str is modelled as a sequence of one-character strings, so     *)
(* that trimming, lower-casing, splitting and the regular expressions are  *)
(* computed character by character.  A CSV row is a record with the ten    *)
(* output columns; a column that is absent (or None) in the Python dict is *)
(* the empty string here, which is how every read of the code treats it    *)
(* (row.get(col) or "", `if not value`).                                   *)
(***************************************************************************)
EXTENDS Integers, Sequences, FiniteSets, TLC

\* ------------------------------------------------------------------ bounds

\* Longest raw input (number of CSV rows read) of the pipeline.
MaxRows == 3

\* Most rows merged one after the other into one entity (merger alone).
MaxMerges == 2

\* Longest company name, email and tail of a phone given to the helpers of
\* agents/utils run alone.
MaxNameLen == 3

MaxEmailLen == 6

MaxPhoneLen == 3

\* Greatest --max-pages given to a scraper, most result pages the site has
\* for one search term, and number of search terms of a run.
MaxPagesArg == 2

MaxSitePages == 3

MaxTerms == 2

\* ----------------------------------------------------- Python str methods

UpperChars == <<"A","B","C","D","E","F","G","H","I","J","K","L","M",
                "N","O","P","Q","R","S","T","U","V","W","X","Y","Z">>

LowerChars == <<"a","b","c","d","e","f","g","h","i","j","k","l","m",
                "n","o","p","q","r","s","t","u","v","w","x","y","z">>

DigitChars == <<"0","1","2","3","4","5","6","7","8","9">>

\* The characters of the model in code-point order (str comparison).
CharOrder == <<" ", "!", "&", "+", "-", ".", "/">> \o DigitChars
             \o <<":", ";", "@">> \o UpperChars \o <<"_">> \o LowerChars
             \o <<"|">>

InSeq(x, s) == \E k \in 1..Len(s) : s[k] = x

IndexOf(x, s) == CHOOSE k \in 1..Len(s) : s[k] = x

CharsOf(s) == { s[k] : k \in 1..Len(s) }

OrdTable == [c \in CharsOf(CharOrder) |-> IndexOf(c, CharOrder)]

ord(c) == OrdTable[c]

isspace(c) == c \in {" ", "\t", "\n", "\r"}

DigitSet == CharsOf(DigitChars)

isdigit(c) == c \in DigitSet

\* [a-z0-9], the complement of NON_ALNUM_RE's character class.
LowerAlnumSet == CharsOf(LowerChars) \cup DigitSet

IsLowerAlnum(c) == c \in LowerAlnumSet

LowerTable == [c \in CharsOf(UpperChars) |-> LowerChars[IndexOf(c, UpperChars)]]

lower_char(c) == IF c \in DOMAIN LowerTable THEN LowerTable[c] ELSE c

\* str.lower()
str_lower(s) == [k \in 1..Len(s) |-> lower_char(s[k])]

RECURSIVE str_lstrip(_)
str_lstrip(s) == IF s # <<>> /\ isspace(Head(s)) THEN str_lstrip(Tail(s)) ELSE s

RECURSIVE str_rstrip(_)
str_rstrip(s) == IF s # <<>> /\ isspace(s[Len(s)])
                 THEN str_rstrip(SubSeq(s, 1, Len(s) - 1)) ELSE s

\* str.strip()
str_strip(s) == str_rstrip(str_lstrip(s))

\* str.split(sep) for a one-character separator.
RECURSIVE str_split(_, _)
str_split(s, sep) ==
    IF ~InSeq(sep, s) THEN <<s>>
    ELSE LET p == CHOOSE k \in 1..Len(s) :
                      s[k] = sep /\ \A j \in 1..(k - 1) : s[j] # sep
         IN  <<SubSeq(s, 1, p - 1)>> \o str_split(SubSeq(s, p + 1, Len(s)), sep)

\* sep.join(parts)
RECURSIVE str_join(_, _)
str_join(sep, parts) ==
    IF parts = <<>> THEN <<>>
    ELSE IF Len(parts) = 1 THEN parts[1]
    ELSE parts[1] \o sep \o str_join(sep, Tail(parts))

\* s.startswith(prefix)
startswith(s, prefix) == Len(s) >= Len(prefix) /\ SubSeq(s, 1, Len(prefix)) = prefix

\* s > t on Python str: lexicographic by code point.
RECURSIVE str_gt(_, _)
str_gt(s, t) ==
    IF s = <<>> THEN FALSE
    ELSE IF t = <<>> THEN TRUE
    ELSE IF Head(s) = Head(t) THEN str_gt(Tail(s), Tail(t))
    ELSE ord(Head(s)) > ord(Head(t))

\* str(n) for n >= 0
RECURSIVE int_str(_)
int_str(n) == IF n < 10 THEN <<DigitChars[n + 1]>>
              ELSE int_str(n \div 10) \o <<DigitChars[(n % 10) + 1]>>

\* ------------------------------------------------------------ agents/utils

\* EMAIL_RE = ^[^@\s]+@[^@\s]+\.[^@\s]+$ : one "@", no white space, a
\* non-empty local part, and after the "@" a "." with something on each side.
EMAIL_RE_match(v) ==
    /\ \A k \in 1..Len(v) : ~isspace(v[k])
    /\ \E a \in 1..Len(v) :
          /\ v[a] = "@"
          /\ \A k \in 1..Len(v) : v[k] = "@" => k = a
          /\ a > 1
          /\ \E d \in (a + 2)..(Len(v) - 1) : v[d] = "."

\* validate_email without the match against EMAIL_RE.
validate_email_unchecked(value) ==
    IF value = <<>> THEN <<>> ELSE str_strip(value)

\* validate_email returning its argument as it was given, not trimmed.
validate_email_untrimmed(value) ==
    IF value = <<>> THEN <<>>
    ELSE IF EMAIL_RE_match(str_strip(value)) THEN value ELSE <<>>

validate_email(value) ==
    IF value = <<>> THEN <<>>
    ELSE LET v == str_strip(value)
         IN  IF EMAIL_RE_match(v) THEN v ELSE <<>>

\* NON_ALNUM_RE.sub(" ", lowered): every maximal run of characters outside
\* [a-z0-9] becomes one space.
RECURSIVE NON_ALNUM_RE_sub(_)
NON_ALNUM_RE_sub(s) ==
    IF s = <<>> THEN <<>>
    ELSE IF IsLowerAlnum(Head(s)) THEN <<Head(s)>> \o NON_ALNUM_RE_sub(Tail(s))
    ELSE IF Len(s) > 1 /\ ~IsLowerAlnum(s[2]) THEN NON_ALNUM_RE_sub(Tail(s))
    ELSE <<" ">> \o NON_ALNUM_RE_sub(Tail(s))

\* str.split() without argument: the maximal runs of non-space characters.
RECURSIVE str_split_ws(_)
str_split_ws(s) ==
    LET t == str_lstrip(s)
    IN  IF t = <<>> THEN <<>>
        ELSE LET n == IF \E k \in 1..Len(t) : isspace(t[k])
                      THEN (CHOOSE k \in 1..Len(t) :
                               isspace(t[k]) /\ \A j \in 1..(k - 1) : ~isspace(t[j])) - 1
                      ELSE Len(t)
             IN  <<SubSeq(t, 1, n)>> \o str_split_ws(SubSeq(t, n + 1, Len(t)))

\* normalize_company_name without the final split and join.
normalize_company_name_no_collapse(value) ==
    IF value = <<>> THEN <<>>
    ELSE NON_ALNUM_RE_sub(str_lower(str_strip(value)))

normalize_company_name(value) ==
    IF value = <<>> THEN <<>>
    ELSE LET lowered    == str_lower(str_strip(value))
             normalized == NON_ALNUM_RE_sub(lowered)
         IN  str_join(<<" ">>, str_split_ws(normalized))

\* re.sub(r"\D+", "", value)
only_digits(s) == SelectSeq(s, isdigit)

\* normalize_phone without the "+" in front of the digits.
normalize_phone_no_plus(value) ==
    IF value = <<>> THEN <<>>
    ELSE LET digits == only_digits(value)
         IN  IF startswith(digits, <<"0","0","9","7","1">>)
             THEN <<"9","7","1">> \o SubSeq(digits, 6, Len(digits))
             ELSE digits

\* normalize_phone with the international prefix 00 cut, not 00971 rewritten.
normalize_phone_cut_00(value) ==
    IF value = <<>> THEN <<>>
    ELSE LET digits == only_digits(value)
         IN  IF digits = <<>> THEN <<>>
             ELSE IF startswith(digits, <<"0","0">>)
                  THEN <<"+">> \o SubSeq(digits, 3, Len(digits))
                  ELSE <<"+">> \o digits

normalize_phone(value) ==
    IF value = <<>> THEN <<>>
    ELSE LET digits == only_digits(value)
         IN  IF digits = <<>> THEN <<>>
             ELSE LET d2 == IF startswith(digits, <<"0","0","9","7","1">>)
                            THEN <<"9","7","1">> \o SubSeq(digits, 6, Len(digits))
                            ELSE digits
                  IN  IF startswith(d2, <<"9","7","1">>) THEN <<"+">> \o d2
                      ELSE <<"+">> \o d2

\* notes_extend without the test for a tag already in parts.
RECURSIVE notes_extend_keep_duplicates(_, _)
notes_extend_keep_duplicates(parts, items) ==
    IF items = <<>> THEN parts
    ELSE LET item == str_strip(Head(items))
         IN  notes_extend_keep_duplicates(IF item # <<>> THEN Append(parts, item) ELSE parts,
                                          Tail(items))

\* The inner loop of merge_notes over one value: each item is stripped and
\* appended unless it is empty or already in parts.
RECURSIVE notes_extend(_, _)
notes_extend(parts, items) ==
    IF items = <<>> THEN parts
    ELSE LET item == str_strip(Head(items))
         IN  notes_extend(IF item # <<>> /\ ~InSeq(item, parts)
                          THEN Append(parts, item) ELSE parts,
                          Tail(items))

\* The parts list of merge_notes(a, b) before the final join.
notes_parts(a, b) ==
    LET p1 == IF a = <<>> THEN <<>> ELSE notes_extend(<<>>, str_split(a, ";"))
    IN  IF b = <<>> THEN p1 ELSE notes_extend(p1, str_split(b, ";"))

merge_notes(a, b) == str_join(<<";">>, notes_parts(a, b))

\* ----------------------------------------------------------- agents/config

SOURCE_DUBAI_CHAMBER == <<"d","u","b","a","i","_","c","h","a","m","b","e","r">>

SOURCE_DUBAI_DED == <<"d","u","b","a","i","_","d","e","d">>

SOURCE_SHARJAH_SEDD == <<"s","h","a","r","j","a","h","_","s","e","d","d">>

OUTPUT_COLUMNS == {"company_name", "business_activity", "phone", "email", "source",
                   "emirate", "activity_code", "source_url", "last_seen_utc", "notes"}

\* --------------------------------------------- merge_and_clean: the merger

\* best_activity with >= for > in the length test.
best_activity_longer_or_equal(existing, new, new_source) ==
    IF existing = <<>> THEN new
    ELSE IF new_source = SOURCE_DUBAI_CHAMBER /\ existing # <<>>
         THEN (IF new # <<>> THEN new ELSE existing)
    ELSE IF new # <<>> /\ Len(new) >= Len(existing) THEN new
    ELSE existing

best_activity(existing, new, new_source) ==
    IF existing = <<>> THEN new
    ELSE IF new_source = SOURCE_DUBAI_CHAMBER /\ existing # <<>>
         THEN (IF new # <<>> THEN new ELSE existing)
    ELSE IF new # <<>> /\ Len(new) > Len(existing) THEN new
    ELSE existing

\* merge_phone without the fall back to the existing phone.
merge_phone_priority_blank(existing, incoming) ==
    IF existing.phone = <<>> THEN incoming.phone
    ELSE IF existing.source # SOURCE_DUBAI_CHAMBER /\ incoming.source = SOURCE_DUBAI_CHAMBER
         THEN incoming.phone
    ELSE existing.phone

\* merge_rows, the phone: lines 47-52.
merge_phone(existing, incoming) ==
    IF existing.phone = <<>> THEN incoming.phone
    ELSE IF existing.source # SOURCE_DUBAI_CHAMBER /\ incoming.source = SOURCE_DUBAI_CHAMBER
         THEN (IF incoming.phone # <<>> THEN incoming.phone ELSE existing.phone)
    ELSE existing.phone

\* merge_rows, the email: lines 54-59.
merge_email(existing, incoming) ==
    IF existing.email = <<>> THEN incoming.email
    ELSE IF existing.source # SOURCE_DUBAI_CHAMBER /\ incoming.source = SOURCE_DUBAI_CHAMBER
         THEN (IF incoming.email # <<>> THEN incoming.email ELSE existing.email)
    ELSE existing.email

\* merge_rows, the business activity: lines 61-63.
merge_activity(existing, incoming) ==
    best_activity(existing.business_activity, incoming.business_activity, incoming.source)

\* merge_activity_code where a code of the priority source replaces a set code.
merge_activity_code_priority(existing, incoming) ==
    IF incoming.activity_code # <<>>
       /\ (existing.activity_code = <<>> \/ incoming.source = SOURCE_DUBAI_CHAMBER)
    THEN incoming.activity_code ELSE existing.activity_code

\* merge_rows, the activity code: lines 65-66.
merge_activity_code(existing, incoming) ==
    IF existing.activity_code = <<>> /\ incoming.activity_code # <<>>
    THEN incoming.activity_code ELSE existing.activity_code

\* merge_rows, the source URL: lines 68-69.
merge_source_url(existing, incoming) ==
    IF existing.source_url = <<>> /\ incoming.source_url # <<>>
    THEN incoming.source_url ELSE existing.source_url

\* merge_source where the latest row always gives the label.
merge_source_latest(existing, incoming) == incoming.source

\* merge_rows, the source label: lines 71-72.
merge_source(existing, incoming) ==
    IF incoming.source = SOURCE_DUBAI_CHAMBER THEN incoming.source ELSE existing.source

\* merge_last_seen without the comparison: the incoming timestamp wins.
merge_last_seen_incoming(existing, incoming) ==
    IF incoming.last_seen_utc # <<>>
    THEN incoming.last_seen_utc ELSE existing.last_seen_utc

\* merge_rows, the timestamp: lines 77-80.
merge_last_seen(existing, incoming) ==
    IF incoming.last_seen_utc # <<>>
       /\ (existing.last_seen_utc = <<>>
           \/ str_gt(incoming.last_seen_utc, existing.last_seen_utc))
    THEN incoming.last_seen_utc ELSE existing.last_seen_utc

\* merge_rows(existing, incoming): the dict existing after the call.  Every
\* rule reads the sources and values that existing had on entry, as the
\* code does (existing_source is read before line 72 assigns the source).
merge_rows(existing, incoming) ==
    [existing EXCEPT
        !.phone             = merge_phone(existing, incoming),
        !.email             = merge_email(existing, incoming),
        !.business_activity = merge_activity(existing, incoming),
        !.activity_code     = merge_activity_code(existing, incoming),
        !.source_url        = merge_source_url(existing, incoming),
        !.source            = merge_source(existing, incoming),
        !.notes             = merge_notes(existing.notes, incoming.notes),
        !.last_seen_utc     = merge_last_seen(existing, incoming)]

\* ------------------------------------------ merge_and_clean: main, helpers

\* company with the raw value taken untrimmed.
company_untrimmed(row) == row.company_name

\* Line 112: the company name the first loop tests and keeps.
company(row) == str_strip(row.company_name)

\* clean_row with the tag given to every row left without an email, whether
\* it had one or not.
clean_row_tag_no_email(row, now) ==
    LET original_email == str_strip(row.email)
        email          == validate_email(original_email)
    IN  [row EXCEPT
            !.company_name  = company(row),
            !.email         = email,
            !.notes         = IF email = <<>>
                              THEN merge_notes(row.notes,
                                     <<"e","m","a","i","l","_","i","n","v","a","l","i","d",
                                       "_","r","e","m","o","v","e","d">>)
                              ELSE row.notes,
            !.phone         = str_strip(row.phone),
            !.last_seen_utc = IF row.last_seen_utc # <<>> THEN row.last_seen_utc ELSE now]

\* Lines 112-124 on one raw row that has a company name; now is what
\* utc_now_iso() returns if it is called.
clean_row(row, now) ==
    LET original_email == str_strip(row.email)
        email          == validate_email(original_email)
    IN  [row EXCEPT
            !.company_name  = company(row),
            !.email         = email,
            !.notes         = IF original_email # <<>> /\ email = <<>>
                              THEN merge_notes(row.notes,
                                     <<"e","m","a","i","l","_","i","n","v","a","l","i","d",
                                       "_","r","e","m","o","v","e","d">>)
                              ELSE row.notes,
            !.phone         = str_strip(row.phone),
            !.last_seen_utc = IF row.last_seen_utc # <<>> THEN row.last_seen_utc ELSE now]

norm_name(row) == normalize_company_name(row.company_name)

\* norm_email without lower().
norm_email_keep_case(row) == str_strip(row.email)

norm_email(row) == str_strip(str_lower(row.email))

norm_phone(row) == normalize_phone(row.phone)

\* exact_sig without the source.
exact_sig_without_source(row) ==
    << norm_name(row), norm_email(row), norm_phone(row),
       str_lower(str_strip(row.business_activity)),
       <<>>,
       str_lower(str_strip(row.activity_code)),
       str_lower(str_strip(row.source_url)),
       str_lower(str_strip(row.emirate)) >>

\* Lines 144-153.
exact_sig(row) ==
    << norm_name(row), norm_email(row), norm_phone(row),
       str_lower(str_strip(row.business_activity)),
       str_lower(str_strip(row.source)),
       str_lower(str_strip(row.activity_code)),
       str_lower(str_strip(row.source_url)),
       str_lower(str_strip(row.emirate)) >>

\* identity_key with the fall back key built from the name, not from idx.
identity_key_fallback_name(row, idx) ==
    IF norm_name(row) # <<>> /\ norm_email(row) # <<>>
    THEN norm_name(row) \o <<"|">> \o norm_email(row)
    ELSE IF norm_name(row) # <<>> /\ norm_phone(row) # <<>>
    THEN norm_name(row) \o <<"|">> \o norm_phone(row)
    ELSE <<"u","n","i","q","u","e","|">> \o norm_name(row)

\* identity_key keyed by the name alone whenever there is one.
identity_key_name_only(row, idx) ==
    IF norm_name(row) # <<>> THEN norm_name(row)
    ELSE <<"u","n","i","q","u","e","|">> \o int_str(idx)

\* identity_key with the phone tried before the email.
identity_key_phone_first(row, idx) ==
    IF norm_name(row) # <<>> /\ norm_phone(row) # <<>>
    THEN norm_name(row) \o <<"|">> \o norm_phone(row)
    ELSE IF norm_name(row) # <<>> /\ norm_email(row) # <<>>
    THEN norm_name(row) \o <<"|">> \o norm_email(row)
    ELSE <<"u","n","i","q","u","e","|">> \o int_str(idx)

\* Lines 159-165: the key of the row at position idx of cleaned.
identity_key(row, idx) ==
    LET name  == norm_name(row)
        email == norm_email(row)
        phone == norm_phone(row)
    IN  IF name # <<>> /\ email # <<>> THEN name \o <<"|">> \o email
        ELSE IF name # <<>> /\ phone # <<>> THEN name \o <<"|">> \o phone
        ELSE <<"u","n","i","q","u","e","|">> \o int_str(idx)

\* project_row with the phone written in its normalized form.
project_row_normalized_phone(row) ==
    [col \in OUTPUT_COLUMNS |->
        IF col = "phone" THEN normalize_phone(row.phone) ELSE str_strip(row[col])]

\* Line 174: the projection of one entity to the output columns.
project_row(row) == [col \in OUTPUT_COLUMNS |-> str_strip(row[col])]

\* Counter[k] += 1
counter_inc(counter, k) ==
    [x \in (DOMAIN counter) \cup {k} |->
        IF x = k THEN (IF k \in DOMAIN counter THEN counter[k] + 1 ELSE 1)
        ELSE counter[x]]

\* Counter.get(k, 0)
counter_get(counter, k) == IF k \in DOMAIN counter THEN counter[k] ELSE 0

EmptyCounter == [x \in {} |-> 0]

\* count_chamber_code without the test of the source.
count_chamber_code_any_source(counts, row) ==
    IF row.activity_code # <<>>
    THEN counter_inc(counts, row.activity_code) ELSE counts

\* Lines 129-132: chamber_code_counts after one cleaned row.
count_chamber_code(counts, row) ==
    IF row.source = SOURCE_DUBAI_CHAMBER /\ row.activity_code # <<>>
    THEN counter_inc(counts, row.activity_code) ELSE counts

\* Lines 97-100: the codes of the control file, stripped, blanks left out.
RECURSIVE read_codes(_)
read_codes(cells) ==
    IF cells = <<>> THEN <<>>
    ELSE LET code == str_strip(Head(cells))
         IN  (IF code # <<>> THEN <<code>> ELSE <<>>) \o read_codes(Tail(cells))

\* Lines 184-189: one warning for each listed code that no cleaned chamber row carried.
RECURSIVE coverage_warnings(_, _)
coverage_warnings(codes, counts) ==
    IF codes = <<>> THEN <<>>
    ELSE (IF counter_get(counts, Head(codes)) = 0
          THEN <<[level |-> "warning", msg |-> "no_rows_for_code", code |-> Head(codes)]>>
          ELSE <<>>)
         \o coverage_warnings(Tail(codes), counts)

\* ------------------------------------------------------------------ inputs

AcmeOil == <<"A","c","m","e"," ","O","i","l">>

AcmeOilLoud == <<" ","A","C","M","E"," "," ","o","i","l","!">>

Ampersand == <<"&">>

MailAcme == <<"a","@","a","c","m","e",".","c","o","m">>

MailAcmeCaps == <<"A","@","A","c","m","e",".","c","o","m">>

Phone050 == <<"0","5","0","-","1","1","1","1","1","1","1">>

Phone050Spaced == <<"0","5","0"," ","1","1","1","1","1","1","1">>

PhoneNA == <<"n","/","a">>

Trading == <<"t","r","a","d","i","n","g">>

OilfieldServices == <<"o","i","l","f","i","e","l","d"," ","s","e","r","v","i","c","e","s">>

Dubai == <<"D","u","b","a","i">>

Code0610 == <<"0","6","1","0">>

Code0620 == <<"0","6","2","0">>

UrlA == <<"u","/","a">>

UrlB == <<"u","/","b">>

Seen2024 == <<"2","0","2","4","-","0","1","-","0","1","T","0","0",":","0","0",":","0","0","Z">>

Seen2025 == <<"2","0","2","5","-","0","1","-","0","1","T","0","0",":","0","0",":","0","0","Z">>

\* What utc_now_iso() can return during a run.
NowValues == { <<"2","0","2","6","-","0","1","-","0","1","T","0","0",":","0","0",":","0","0","Z">> }

BlankRow == [company_name |-> <<>>, business_activity |-> <<>>, phone |-> <<>>,
             email |-> <<>>, source |-> <<>>, emirate |-> <<>>, activity_code |-> <<>>,
             source_url |-> <<>>, last_seen_utc |-> <<>>, notes |-> <<>>]

\* A raw row of the identity inputs.
IdRow(name, email, phone, source) ==
    [BlankRow EXCEPT !.company_name = name, !.email = email, !.phone = phone,
                     !.source = source, !.business_activity = Trading,
                     !.emirate = Dubai, !.last_seen_utc = Seen2024]

\* Rows with a contact: keyed by email, keyed by phone, and with a name that
\* normalizes to nothing.
KeyedRows ==
    { IdRow(AcmeOil, MailAcme, <<>>, SOURCE_DUBAI_DED),
      IdRow(AcmeOilLoud, MailAcmeCaps, Phone050, SOURCE_DUBAI_CHAMBER),
      IdRow(AcmeOil, <<>>, Phone050, SOURCE_DUBAI_DED),
      IdRow(AcmeOil, <<>>, Phone050Spaced, SOURCE_DUBAI_CHAMBER),
      IdRow(Ampersand, MailAcme, <<>>, SOURCE_DUBAI_DED),
      IdRow(Ampersand, MailAcme, <<>>, SOURCE_DUBAI_CHAMBER) }

\* Rows without a usable contact, one with, and one without a company name.
NoContactRows ==
    { IdRow(AcmeOil, <<>>, <<>>, SOURCE_DUBAI_DED),
      IdRow(AcmeOilLoud, <<>>, <<>>, SOURCE_DUBAI_DED),
      IdRow(AcmeOil, <<>>, <<>>, SOURCE_DUBAI_CHAMBER),
      IdRow(AcmeOil, <<>>, PhoneNA, SOURCE_DUBAI_DED),
      IdRow(AcmeOil, <<>>, Phone050, SOURCE_DUBAI_DED),
      IdRow(<<" ">>, <<>>, <<>>, SOURCE_DUBAI_DED) }

\* The two rows of the Acme Oil scenario, in its order.
ScenarioInput ==
    << [BlankRow EXCEPT !.company_name = AcmeOil, !.phone = Phone050,
                        !.source = SOURCE_DUBAI_DED, !.business_activity = Trading],
       [BlankRow EXCEPT !.company_name = AcmeOil, !.email = MailAcme,
                        !.source = SOURCE_DUBAI_CHAMBER,
                        !.business_activity = OilfieldServices] >>

\* The rows of the scenario, and the first of them without its company name.
ScenarioRows == { ScenarioInput[1], ScenarioInput[2],
                  [ScenarioInput[1] EXCEPT !.company_name = <<>>] }

\* A raw row of the chain inputs: one company and email, so one identity key.
ChainRow(source, code, url) ==
    [BlankRow EXCEPT !.company_name = AcmeOil, !.email = MailAcme, !.source = source,
                     !.activity_code = code, !.source_url = url,
                     !.last_seen_utc = Seen2024]

ChainRows ==
    { ChainRow(SOURCE_DUBAI_DED, <<>>, <<>>),
      ChainRow(SOURCE_DUBAI_DED, Code0610, <<>>),
      ChainRow(SOURCE_DUBAI_CHAMBER, Code0620, UrlB),
      ChainRow(SOURCE_DUBAI_CHAMBER, <<>>, <<>>),
      ChainRow(SOURCE_SHARJAH_SEDD, <<>>, UrlA) }

\* A raw row of the timestamp inputs: one identity key, as the chain inputs.
TimeRow(source, url, seen) ==
    [ChainRow(source, <<>>, url) EXCEPT !.last_seen_utc = seen]

\* Rows seen at different times, one with no timestamp, one with a blank one.
TimeRows ==
    { TimeRow(SOURCE_DUBAI_DED, <<>>, Seen2025),
      TimeRow(SOURCE_DUBAI_CHAMBER, <<>>, Seen2024),
      TimeRow(SOURCE_SHARJAH_SEDD, <<>>, <<>>),
      TimeRow(SOURCE_DUBAI_DED, UrlA, <<" ">>) }

MailBad == <<"b","a","d">>

MailSpaced == <<"a"," ","@","a","c","m","e",".","a","e">>

TagInvalid == <<"e","m","a","i","l","_","i","n","v","a","l","i","d",
                "_","r","e","m","o","v","e","d">>

\* A raw row of the email inputs: one company and phone.
EmailRow(email, source, notes) ==
    [BlankRow EXCEPT !.company_name = AcmeOil, !.phone = Phone050, !.email = email,
                     !.source = source, !.notes = notes, !.last_seen_utc = Seen2024]

\* Rows with an invalid, a padded, a blank and a valid email, with notes
\* that hold the tag of cleaning already or a tag twice.
EmailRows ==
    { EmailRow(MailBad, SOURCE_DUBAI_DED, <<>>),
      EmailRow(<<" ">> \o MailAcme \o <<" ">>, SOURCE_DUBAI_CHAMBER, <<"x">>),
      EmailRow(MailSpaced, SOURCE_SHARJAH_SEDD, TagInvalid \o <<";","x">>),
      EmailRow(<<" "," ">>, SOURCE_DUBAI_DED, <<"x",";","x">>),
      EmailRow(MailAcme, SOURCE_DUBAI_DED, <<>>) }

PhoneOffice == <<"0","4","-","2","2","2">>

\* Rows of one company and email, hence one identity key, from the chamber
\* and from another source, with and without a phone.
PriorityRows ==
    { IdRow(AcmeOil, MailAcme, <<>>, SOURCE_DUBAI_CHAMBER),
      IdRow(AcmeOil, MailAcme, PhoneOffice, SOURCE_DUBAI_DED),
      IdRow(AcmeOil, MailAcmeCaps, Phone050, SOURCE_DUBAI_CHAMBER),
      IdRow(AcmeOil, MailAcme, <<>>, SOURCE_DUBAI_DED) }

Unique == <<"U","n","i","q","u","e">>

\* Rows of a company named Unique, without a contact and with phones that
\* are the digits of a position, and a row whose name normalizes to nothing.
UniqueRows ==
    { IdRow(Unique, <<>>, <<>>, SOURCE_DUBAI_DED),
      IdRow(Unique, <<>>, <<"0">>, SOURCE_DUBAI_DED),
      IdRow(Unique, <<>>, <<"1">>, SOURCE_DUBAI_CHAMBER),
      IdRow(Ampersand, <<>>, <<"1">>, SOURCE_DUBAI_DED) }

\* Each run reads rows of one family.
InputFamilies == { KeyedRows, NoContactRows, ScenarioRows, ChainRows, TimeRows, EmailRows,
                   PriorityRows, UniqueRows }

SeqsUpTo(S, n) == UNION { [1..k -> S] : k \in 0..n }

\* The cells of the activity_code column of the control file.
CodeFiles == { <<Code0610, <<" ">>, Code0620>> }

\* --------------------------------------------------- merge_and_clean: main

VARIABLES
    pc,                  \* where main is: "start", "clean", "merge", "done"
    chamber_codes,       \* the control list read from the codes file
    raw_rows,            \* what read_raw_csvs returns
    ci,                  \* rows of raw_rows the first loop has taken
    cleaned,
    source_counts,
    chamber_code_counts,
    idx,                 \* index into cleaned of the second loop
    merged,              \* the dict key -> row, as its items in insertion order
    members,             \* for each item of merged, the idx of the rows it absorbed
    seen_exact,
    output_rows,
    written,             \* whether output/uae_oil_companies.csv was written
    warnings,            \* the records logged at WARNING level
    before,              \* merger run alone: existing on entry to the last call
    existing,            \* merger run alone: the entity merge_rows mutates
    incoming,            \* merger run alone: the row of the last call
    merges,              \* merger run alone: calls made
    fn,                  \* helper run alone: the function called, "none" before
    value,               \* helper run alone: the argument
    returned,            \* helper run alone: what the call returned
    twice,               \* helper run alone: what the call on returned returned
    scraper,             \* scraper run: which of the three, "none" otherwise
    max_pages,           \* scraper run: args.max_pages
    term,                \* scraper run: position of the code or keyword searched
    site_pages,          \* scraper run: result pages the site has for the term
    page_number,         \* scraper run: the loop's page_number
    pages_read,          \* scraper run: pages of the term read so far
    paging               \* scraper run: whether the while loop of the term runs

vars == <<pc, chamber_codes, raw_rows, ci, cleaned, source_counts, chamber_code_counts,
          idx, merged, members, seen_exact, output_rows, written, warnings,
          before, existing, incoming, merges, fn, value, returned, twice,
          scraper, max_pages, term, site_pages, page_number, pages_read, paging>>

pipeline_vars == <<pc, chamber_codes, raw_rows, ci, cleaned, source_counts,
                   chamber_code_counts, idx, merged, members, seen_exact, output_rows,
                   written, warnings>>

merger_vars == <<before, existing, incoming, merges>>

MergerIdle == before = BlankRow /\ existing = BlankRow /\ incoming = BlankRow /\ merges = 0

utils_vars == <<fn, value, returned, twice>>

UtilsIdle == fn = "none" /\ value = <<>> /\ returned = <<>> /\ twice = <<>>

scraper_vars == <<scraper, max_pages, term, site_pages, page_number, pages_read, paging>>

ScraperIdle ==
    /\ scraper = "none"
    /\ max_pages = 0
    /\ term = 0
    /\ site_pages = 0
    /\ page_number = 0
    /\ pages_read = 0
    /\ paging = FALSE

\* main up to line 102: the control list is loaded, the raw rows are not yet read.
Init ==
    /\ pc = "start"
    /\ \E file \in CodeFiles : chamber_codes = read_codes(file)
    /\ \E family \in InputFamilies : raw_rows \in SeqsUpTo(family, MaxRows)
    /\ ci = 0
    /\ cleaned = <<>>
    /\ source_counts = EmptyCounter
    /\ chamber_code_counts = EmptyCounter
    /\ idx = 0
    /\ merged = <<>>
    /\ members = <<>>
    /\ seen_exact = {}
    /\ output_rows = <<>>
    /\ written = FALSE
    /\ warnings = <<>>
    /\ MergerIdle
    /\ UtilsIdle
    /\ ScraperIdle

\* NoInput without the return: the warning is logged and main goes on.
NoInput_no_return ==
    /\ pc = "start"
    /\ raw_rows = <<>>
    /\ warnings' = Append(warnings, [level |-> "warning", msg |-> "no_raw_csv"])
    /\ pc' = "merge"
    /\ UNCHANGED <<chamber_codes, raw_rows, ci, cleaned, source_counts,
                   chamber_code_counts, idx, merged, members, seen_exact, output_rows,
                   written>>
    /\ UNCHANGED merger_vars
    /\ UNCHANGED utils_vars
    /\ UNCHANGED scraper_vars

\* Lines 102-105 with no raw row: one warning, return.
NoInput ==
    /\ pc = "start"
    /\ raw_rows = <<>>
    /\ warnings' = Append(warnings, [level |-> "warning", msg |-> "no_raw_csv"])
    /\ pc' = "done"
    /\ UNCHANGED <<chamber_codes, raw_rows, ci, cleaned, source_counts,
                   chamber_code_counts, idx, merged, members, seen_exact, output_rows,
                   written>>
    /\ UNCHANGED merger_vars
    /\ UNCHANGED utils_vars
    /\ UNCHANGED scraper_vars

\* Lines 102-109 with raw rows: the first loop starts.
StartClean ==
    /\ pc = "start"
    /\ raw_rows # <<>>
    /\ pc' = "clean"
    /\ UNCHANGED <<chamber_codes, raw_rows, ci, cleaned, source_counts,
                   chamber_code_counts, idx, merged, members, seen_exact, output_rows,
                   written, warnings>>
    /\ UNCHANGED merger_vars
    /\ UNCHANGED utils_vars
    /\ UNCHANGED scraper_vars

\* One iteration of the loop of lines 111-134.
CleanRow ==
    /\ pc = "clean"
    /\ ci < Len(raw_rows)
    /\ LET row == raw_rows[ci + 1]
       IN  IF company(row) = <<>>
           THEN UNCHANGED <<cleaned, source_counts, chamber_code_counts>>
           ELSE \E now \in NowValues :
                  LET c == clean_row(row, now)
                  IN  /\ cleaned' = Append(cleaned, c)
                      /\ source_counts' = counter_inc(source_counts, c.source)
                      /\ chamber_code_counts' = count_chamber_code(chamber_code_counts, c)
    /\ ci' = ci + 1
    /\ pc' = IF ci + 1 = Len(raw_rows) THEN "merge" ELSE "clean"
    /\ UNCHANGED <<chamber_codes, raw_rows, idx, merged, members, seen_exact,
                   output_rows, written, warnings>>
    /\ UNCHANGED merger_vars
    /\ UNCHANGED utils_vars
    /\ UNCHANGED scraper_vars

\* key_pos that takes an item for the key when the names of the two keys,
\* the parts before "|", are the same.
key_pos_same_name(m, key) ==
    LET same(k) == str_split(m[k].key, "|")[1] = str_split(key, "|")[1]
    IN  IF \E k \in 1..Len(m) : same(k)
        THEN CHOOSE k \in 1..Len(m) : same(k)
        ELSE 0

\* Position in merged of the item with this key, 0 if there is none.
key_pos(m, key) ==
    IF \E k \in 1..Len(m) : m[k].key = key
    THEN CHOOSE k \in 1..Len(m) : m[k].key = key
    ELSE 0

\* merge_step without the exact duplicate guard.
merge_step_no_guard(st, row, i) ==
    LET sig == exact_sig(row)
        key == identity_key(row, i)
        pos == key_pos(st.merged, key)
    IN  IF pos # 0
        THEN [merged     |-> [st.merged EXCEPT ![pos].row = merge_rows(@, row)],
              members    |-> [st.members EXCEPT ![pos] = Append(@, i)],
              seen_exact |-> st.seen_exact \cup {sig}]
        ELSE [merged     |-> Append(st.merged, [key |-> key, row |-> row]),
              members    |-> Append(st.members, <<i>>),
              seen_exact |-> st.seen_exact \cup {sig}]

\* The body of the loop of lines 138-170 for the row at position i of
\* cleaned: st holds merged, members and seen_exact before, the result after.
merge_step(st, row, i) ==
    LET sig == exact_sig(row)
        key == identity_key(row, i)
        pos == key_pos(st.merged, key)
    IN  IF sig \in st.seen_exact THEN st
        ELSE IF pos # 0
        THEN [merged     |-> [st.merged EXCEPT ![pos].row = merge_rows(@, row)],
              members    |-> [st.members EXCEPT ![pos] = Append(@, i)],
              seen_exact |-> st.seen_exact \cup {sig}]
        ELSE [merged     |-> Append(st.merged, [key |-> key, row |-> row]),
              members    |-> Append(st.members, <<i>>),
              seen_exact |-> st.seen_exact \cup {sig}]

\* The loop of lines 138-170 over rows from position i on.
RECURSIVE merge_loop(_, _, _)
merge_loop(rows, i, st) ==
    IF i >= Len(rows) THEN st
    ELSE merge_loop(rows, i + 1, merge_step(st, rows[i + 1], i))

\* Lines 172-175.
project_all(m) == [k \in 1..Len(m) |-> project_row(m[k].row)]

\* One iteration of the loop of lines 138-170.
MergeRow ==
    /\ pc = "merge"
    /\ idx < Len(cleaned)
    /\ LET st == merge_step([merged |-> merged, members |-> members,
                             seen_exact |-> seen_exact], cleaned[idx + 1], idx)
       IN  /\ merged' = st.merged
           /\ members' = st.members
           /\ seen_exact' = st.seen_exact
    /\ idx' = idx + 1
    /\ UNCHANGED <<pc, chamber_codes, raw_rows, ci, cleaned, source_counts,
                   chamber_code_counts, output_rows, written, warnings>>
    /\ UNCHANGED merger_vars
    /\ UNCHANGED utils_vars
    /\ UNCHANGED scraper_vars

\* Lines 172-189: projection, the output file, the coverage warnings.
WriteOutput ==
    /\ pc = "merge"
    /\ idx = Len(cleaned)
    /\ output_rows' = project_all(merged)
    /\ written' = TRUE
    /\ warnings' = warnings \o coverage_warnings(chamber_codes, chamber_code_counts)
    /\ pc' = "done"
    /\ UNCHANGED <<chamber_codes, raw_rows, ci, cleaned, source_counts,
                   chamber_code_counts, idx, merged, members, seen_exact>>
    /\ UNCHANGED merger_vars
    /\ UNCHANGED utils_vars
    /\ UNCHANGED scraper_vars

Next == NoInput \/ StartClean \/ CleanRow \/ MergeRow \/ WriteOutput

Spec == Init /\ [][Next]_vars

\* ------------------------------------------- merge_rows run on its own

Phone04 == <<"0","4","-","2","2","2">>

MailInfo == <<"i","n","f","o","@","x",".","a","e">>

\* Cleaned rows that differ in the contact fields and the source.
ContactRows ==
    { [BlankRow EXCEPT !.company_name = AcmeOil, !.phone = p, !.email = e, !.source = s] :
        p \in {<<>>, Phone050, Phone04}, e \in {<<>>, MailAcme, MailInfo},
        s \in {SOURCE_DUBAI_DED, SOURCE_DUBAI_CHAMBER} }

\* Cleaned rows that differ in the business activity and the source.
ActivityRows ==
    { [BlankRow EXCEPT !.company_name = AcmeOil, !.business_activity = a, !.source = s] :
        a \in {<<>>, <<"o","i","l">>, <<"g","a","s">>, Trading, <<" ">>},
        s \in {SOURCE_DUBAI_DED, SOURCE_DUBAI_CHAMBER} }

\* Cleaned rows that differ in the notes.
NotesRows ==
    { [BlankRow EXCEPT !.company_name = AcmeOil, !.notes = n] :
        n \in { <<>>, <<"a">>, <<"a",";","b">>, <<"b",";"," ","a">>,
                <<"c",";",";","a"," ">>, <<";">>, <<"b",";","c",";","b">> } }

MergerRows == ContactRows \cup ActivityRows \cup NotesRows

PipelineIdle ==
    /\ pc = "done"
    /\ chamber_codes = <<>>
    /\ raw_rows = <<>>
    /\ ci = 0
    /\ cleaned = <<>>
    /\ source_counts = EmptyCounter
    /\ chamber_code_counts = EmptyCounter
    /\ idx = 0
    /\ merged = <<>>
    /\ members = <<>>
    /\ seen_exact = {}
    /\ output_rows = <<>>
    /\ written = FALSE
    /\ warnings = <<>>

\* Line 170: a cleaned row becomes the entity of its key.
MergerInit ==
    /\ existing \in MergerRows
    /\ before = BlankRow
    /\ incoming = BlankRow
    /\ merges = 0
    /\ PipelineIdle
    /\ UtilsIdle
    /\ ScraperIdle

\* Line 168: a later cleaned row is merged into the entity.
MergeCall ==
    /\ merges < MaxMerges
    /\ \E row \in MergerRows :
          /\ incoming' = row
          /\ before' = existing
          /\ existing' = merge_rows(existing, row)
    /\ merges' = merges + 1
    /\ UNCHANGED pipeline_vars
    /\ UNCHANGED utils_vars
    /\ UNCHANGED scraper_vars

MergerNext == MergeCall

SpecMerger == MergerInit /\ [][MergerNext]_vars

\* ------------------------------------- the helpers of utils run on their own

NameChars == {"A", "b", "1", " ", "&"}

EmailChars == {"a", "@", ".", " "}

PhoneChars == {"0", "5", "9", "-"}

PhonePrefixes == { <<>>, <<"0","0","9","7","1">>, <<"9","7","1">>,
                   <<"+","9","7","1">>, <<"0","0","-","9","7","1">> }

Phone0097150123456 == <<"0","0","9","7","1","5","0","1","2","3","4","5","6">>

Phone050_123_4567 == <<"0","5","0","-","1","2","3","-","4","5","6","7">>

\* The arguments of the helpers: every short name, every short email, and
\* the phones made of a prefix and a short tail, with the examples of the
\* design.
UtilsInputs ==
    SeqsUpTo(NameChars, MaxNameLen) \cup SeqsUpTo(EmailChars, MaxEmailLen)
    \cup { p \o t : p \in PhonePrefixes, t \in SeqsUpTo(PhoneChars, MaxPhoneLen) }
    \cup { Phone0097150123456, Phone050_123_4567 }

UtilsInit ==
    /\ value \in UtilsInputs
    /\ fn = "none"
    /\ returned = <<>>
    /\ twice = <<>>
    /\ PipelineIdle
    /\ MergerIdle
    /\ ScraperIdle

\* normalize_company_name(value), and the same on what it returned.
Call_normalize_company_name ==
    /\ fn = "none"
    /\ fn' = "normalize_company_name"
    /\ returned' = normalize_company_name(value)
    /\ twice' = normalize_company_name(normalize_company_name(value))
    /\ UNCHANGED <<value, pipeline_vars, merger_vars, scraper_vars>>

\* validate_email(value), and the same on what it returned.
Call_validate_email ==
    /\ fn = "none"
    /\ fn' = "validate_email"
    /\ returned' = validate_email(value)
    /\ twice' = validate_email(validate_email(value))
    /\ UNCHANGED <<value, pipeline_vars, merger_vars, scraper_vars>>

\* normalize_phone(value), and the same on what it returned.
Call_normalize_phone ==
    /\ fn = "none"
    /\ fn' = "normalize_phone"
    /\ returned' = normalize_phone(value)
    /\ twice' = normalize_phone(normalize_phone(value))
    /\ UNCHANGED <<value, pipeline_vars, merger_vars, scraper_vars>>

UtilsNext == Call_normalize_company_name \/ Call_validate_email \/ Call_normalize_phone

SpecUtils == UtilsInit /\ [][UtilsNext]_vars

\* ------------------------------------------ the page loops of the scrapers

\* What the browser and the site can do to one pass of a page loop: let it
\* go on, end it before the pagination (no table, no rows, a page seen
\* before), or make the click on the next page fail.
PageEvents == {"ok", "stop", "click_fails"}

\* A scraper starts its first search term: page_number = 1, nothing read.
ScraperInit ==
    /\ scraper \in {"dubai_chamber", "dubai_ded", "sharjah_sedd"}
    /\ max_pages \in 0..MaxPagesArg
    /\ term = 1
    /\ site_pages \in 1..MaxSitePages
    /\ page_number = 1
    /\ pages_read = 0
    /\ paging = TRUE
    /\ PipelineIdle
    /\ MergerIdle
    /\ UtilsIdle

\* scrape_dubai_chamber, lines 269-339, the next activity code: a new page loop from page 1.
chamber_next_code ==
    /\ scraper = "dubai_chamber"
    /\ ~paging
    /\ term < MaxTerms
    /\ term' = term + 1
    /\ site_pages' \in 1..MaxSitePages
    /\ page_number' = 1
    /\ pages_read' = 0
    /\ paging' = TRUE
    /\ UNCHANGED <<scraper, max_pages>>
    /\ UNCHANGED <<pipeline_vars, merger_vars, utils_vars>>

\* scrape_dubai_ded, lines 227-260, the next keyword: a new page loop from page 1.
ded_next_keyword ==
    /\ scraper = "dubai_ded"
    /\ ~paging
    /\ term < MaxTerms
    /\ term' = term + 1
    /\ site_pages' \in 1..MaxSitePages
    /\ page_number' = 1
    /\ pages_read' = 0
    /\ paging' = TRUE
    /\ UNCHANGED <<scraper, max_pages>>
    /\ UNCHANGED <<pipeline_vars, merger_vars, utils_vars>>

\* scrape_sharjah_sedd, lines 194-232, the next keyword: a new page loop from page 1.
sedd_next_keyword ==
    /\ scraper = "sharjah_sedd"
    /\ ~paging
    /\ term < MaxTerms
    /\ term' = term + 1
    /\ site_pages' \in 1..MaxSitePages
    /\ page_number' = 1
    /\ pages_read' = 0
    /\ paging' = TRUE
    /\ UNCHANGED <<scraper, max_pages>>
    /\ UNCHANGED <<pipeline_vars, merger_vars, utils_vars>>

\* scrape_dubai_chamber, one pass of the loop of lines 341-455: the page is
\* read; then, with the jqGrid pager on the page, the loop ends if its next
\* button is disabled and goes to the next page otherwise; without the pager
\* page_number is raised and tested against max_pages before the generic
\* next button is looked for.
chamber_page ==
    /\ scraper = "dubai_chamber"
    /\ paging
    /\ pages_read' = pages_read + 1
    /\ \E event \in PageEvents, pager \in BOOLEAN :
          LET last == pages_read + 1 >= site_pages
          IN  IF event = "stop"
              THEN paging' = FALSE /\ page_number' = page_number
              ELSE IF pager
              THEN IF last \/ event = "click_fails"
                   THEN paging' = FALSE /\ page_number' = page_number
                   ELSE paging' = TRUE /\ page_number' = page_number + 1
              ELSE /\ page_number' = page_number + 1
                   /\ paging' = ~(\/ (max_pages # 0 /\ page_number + 1 > max_pages)
                                  \/ last
                                  \/ event = "click_fails")
    /\ UNCHANGED <<scraper, max_pages, term, site_pages>>
    /\ UNCHANGED <<pipeline_vars, merger_vars, utils_vars>>

\* scrape_dubai_ded, one pass of the loop of lines 261-337: the page is
\* read; the loop ends on the last page, when page_number has reached
\* max_pages, or when there is no next page to go to.
ded_page ==
    /\ scraper = "dubai_ded"
    /\ paging
    /\ pages_read' = pages_read + 1
    /\ \E event \in PageEvents :
          LET last == pages_read + 1 >= site_pages
          IN  IF \/ event = "stop"
                 \/ last
                 \/ (max_pages # 0 /\ page_number >= max_pages)
                 \/ event = "click_fails"
              THEN paging' = FALSE /\ page_number' = page_number
              ELSE paging' = TRUE /\ page_number' = page_number + 1
    /\ UNCHANGED <<scraper, max_pages, term, site_pages>>
    /\ UNCHANGED <<pipeline_vars, merger_vars, utils_vars>>

\* scrape_sharjah_sedd, one pass of the loop of lines 233-299: the page is
\* read; the loop ends when page_number has reached max_pages or the
\* paginator has no next page.
sedd_page ==
    /\ scraper = "sharjah_sedd"
    /\ paging
    /\ pages_read' = pages_read + 1
    /\ \E event \in PageEvents :
          LET last == pages_read + 1 >= site_pages
          IN  IF \/ event = "stop"
                 \/ (max_pages # 0 /\ page_number >= max_pages)
                 \/ last
                 \/ event = "click_fails"
              THEN paging' = FALSE /\ page_number' = page_number
              ELSE paging' = TRUE /\ page_number' = page_number + 1
    /\ UNCHANGED <<scraper, max_pages, term, site_pages>>
    /\ UNCHANGED <<pipeline_vars, merger_vars, utils_vars>>

ScraperNext ==
    \/ chamber_page \/ chamber_next_code
    \/ ded_page \/ ded_next_keyword
    \/ sedd_page \/ sedd_next_keyword

SpecScraper == ScraperInit /\ [][ScraperNext]_vars

\* ---------------------------------------------------- properties, pipeline

\* Positions of cleaned, counted from 0 as idx is.
CleanedIdx == 0..(Len(cleaned) - 1)

RowAt(i) == cleaned[i + 1]

NameOf(i) == normalize_company_name(RowAt(i).company_name)

MailOf(i) == str_strip(str_lower(RowAt(i).email))

PhoneOf(i) == normalize_phone(RowAt(i).phone)

\* The first position of cleaned whose row has the exact signature of row i.
FirstWithSig(i) ==
    LET sig == exact_sig(RowAt(i))
    IN  CHOOSE f \in 0..i :
            /\ exact_sig(RowAt(f)) = sig
            /\ \A g \in 0..(f - 1) : exact_sig(RowAt(g)) # sig

\* The entities (positions of merged, hence output rows) that absorbed row i.
Holders(i) == { k \in 1..Len(members) : InSeq(i, members[k]) }

\* The output row that stands for row i: the one holding the first row with
\* its signature.
OutputRowOf(i) == Holders(FirstWithSig(i))

InsertAt(s, p, x) == SubSeq(s, 1, p - 1) \o <<x>> \o SubSeq(s, p, Len(s))

\* The output rows of the second loop and the projection run on rows.
OutputOf(rows) ==
    project_all(merge_loop(rows, 0,
                   [merged |-> <<>>, members |-> <<>>, seen_exact |-> {}]).merged)

Finished == pc = "done" /\ written

C2_SameNameEmailOneRow_AsStated ==
    Finished =>
        \A i, j \in CleanedIdx :
            (/\ NameOf(i) = NameOf(j)
             /\ MailOf(i) = MailOf(j) /\ MailOf(i) # <<>>
             /\ RowAt(i).source # RowAt(j).source)
            => (OutputRowOf(i) = OutputRowOf(j) /\ Cardinality(OutputRowOf(i)) = 1)

\* C2, amended: two rows whose normalized name is the same and not empty and
\* whose cleaned, normalized email is the same and not empty, from different
\* sources, are in one output row.
C2_SameNameEmailOneRow ==
    Finished =>
        \A i, j \in CleanedIdx :
            (/\ NameOf(i) = NameOf(j) /\ NameOf(i) # <<>>
             /\ MailOf(i) = MailOf(j) /\ MailOf(i) # <<>>
             /\ RowAt(i).source # RowAt(j).source)
            => (OutputRowOf(i) = OutputRowOf(j) /\ Cardinality(OutputRowOf(i)) = 1)

C2_Witness ==
    /\ Finished
    /\ \E i, j \in CleanedIdx :
          /\ NameOf(i) = NameOf(j) /\ NameOf(i) # <<>>
          /\ MailOf(i) = MailOf(j) /\ MailOf(i) # <<>>
          /\ RowAt(i).email # RowAt(j).email
          /\ RowAt(i).company_name # RowAt(j).company_name
          /\ RowAt(i).source # RowAt(j).source
          /\ \E k \in 1..Len(members) : InSeq(i, members[k]) /\ InSeq(j, members[k])

NoContact(i) == RowAt(i).email = <<>> /\ RowAt(i).phone = <<>>

\* C3 as stated: every row without email and phone has an output row of its
\* own.
C3_NoContactOwnRow_AsStated ==
    Finished =>
        \A i \in CleanedIdx :
            NoContact(i) => \E k \in 1..Len(members) : members[k] = <<i>>

\* C3, amended: a row without email and phone is never merged with another
\* row, and it has an output row of its own unless an earlier row has its
\* exact signature (then it is dropped as a duplicate).
C3_NoContactOwnRow ==
    Finished =>
        \A i \in CleanedIdx :
            NoContact(i) =>
                /\ \A k \in Holders(i) : members[k] = <<i>>
                /\ (i = FirstWithSig(i) => Cardinality(Holders(i)) = 1)
                /\ (i # FirstWithSig(i) => Holders(i) = {})

C3_Witness ==
    /\ Finished
    /\ \E i, j \in CleanedIdx :
          /\ i < j
          /\ NoContact(i) /\ NoContact(j)
          /\ NameOf(i) = NameOf(j)
          /\ Holders(i) # {} /\ Holders(j) # {}

ScenarioRun == Finished /\ raw_rows = ScenarioInput

Plus0501111111 == <<"+","0","5","0","1","1","1","1","1","1","1">>

\* C4 as stated: the Acme Oil scenario gives one merged row.
C4_Scenario_AsStated ==
    ScenarioRun =>
        /\ Len(output_rows) = 1
        /\ output_rows[1].company_name = AcmeOil
        /\ output_rows[1].email = MailAcme
        /\ output_rows[1].phone = Plus0501111111
        /\ output_rows[1].business_activity = OilfieldServices
        /\ output_rows[1].source = SOURCE_DUBAI_CHAMBER

\* C4, amended: the Acme Oil scenario gives two output rows, one per input
\* row, each with its own fields; the phone is as it was read.
C4_Scenario ==
    ScenarioRun =>
        /\ Len(output_rows) = 2
        /\ output_rows[1].company_name = AcmeOil
        /\ output_rows[1].email = <<>>
        /\ output_rows[1].phone = Phone050
        /\ output_rows[1].business_activity = Trading
        /\ output_rows[1].source = SOURCE_DUBAI_DED
        /\ output_rows[2].company_name = AcmeOil
        /\ output_rows[2].email = MailAcme
        /\ output_rows[2].phone = <<>>
        /\ output_rows[2].business_activity = OilfieldServices
        /\ output_rows[2].source = SOURCE_DUBAI_CHAMBER

C4_Witness == ScenarioRun

\* The key the priority rule gives the row at position i.
RuleKey(i) ==
    IF NameOf(i) # <<>> /\ MailOf(i) # <<>> THEN NameOf(i) \o <<"|">> \o MailOf(i)
    ELSE IF NameOf(i) # <<>> /\ PhoneOf(i) # <<>> THEN NameOf(i) \o <<"|">> \o PhoneOf(i)
    ELSE <<"u","n","i","q","u","e","|">> \o int_str(i)

\* C5: every row that is not dropped as a duplicate is held under the key
\* of the priority rule (name and email; else name and phone; else
\* unique|position), and a row with a name and an email is never held under
\* its name and phone.
C5_KeyPriority ==
    /\ \A i \in 0..(idx - 1) : i = FirstWithSig(i) => Holders(i) # {}
    /\ \A k \in 1..Len(merged) : \A n \in 1..Len(members[k]) :
          LET i == members[k][n]
          IN  /\ merged[k].key = RuleKey(i)
              /\ (NameOf(i) # <<>> /\ MailOf(i) # <<>>)
                   => merged[k].key # NameOf(i) \o <<"|">> \o PhoneOf(i)

C5_Witness ==
    /\ Finished
    /\ \E k, k2 \in 1..Len(merged) : \E n \in 1..Len(members[k]) :
          LET i == members[k][n]
          IN  /\ Len(members[k]) >= 2
              /\ MailOf(i) # <<>> /\ PhoneOf(i) # <<>>
              /\ k2 # k
              /\ merged[k2].key = NameOf(i) \o <<"|">> \o PhoneOf(i)

MemberRows(k) == [n \in 1..Len(members[k]) |-> RowAt(members[k][n])]

\* The first value of vals that is not empty, empty if there is none.
RECURSIVE FirstNonEmpty(_)
FirstNonEmpty(vals) ==
    IF vals = <<>> THEN <<>>
    ELSE IF Head(vals) # <<>> THEN Head(vals)
    ELSE FirstNonEmpty(Tail(vals))

\* C8: at every point of the pass the activity_code of an entity is the
\* first non-empty activity_code of the rows it absorbed, in ingestion
\* order, and so is its source_url; hence neither changes once it is set.
C8_FillOnly ==
    \A k \in 1..Len(merged) :
        /\ merged[k].row.activity_code =
              FirstNonEmpty([n \in 1..Len(members[k]) |-> MemberRows(k)[n].activity_code])
        /\ merged[k].row.source_url =
              FirstNonEmpty([n \in 1..Len(members[k]) |-> MemberRows(k)[n].source_url])

C8_Witness ==
    /\ Finished
    /\ \E k \in 1..Len(merged) :
          /\ Len(members[k]) = 3
          /\ MemberRows(k)[1].activity_code = <<>>
          /\ MemberRows(k)[1].source_url = <<>>
          /\ MemberRows(k)[2].activity_code # <<>>
          /\ MemberRows(k)[2].source_url = <<>>
          /\ MemberRows(k)[3].source = SOURCE_DUBAI_CHAMBER
          /\ MemberRows(k)[3].activity_code \notin {<<>>, MemberRows(k)[2].activity_code}
          /\ MemberRows(k)[3].source_url # <<>>
          /\ output_rows[k].activity_code = MemberRows(k)[2].activity_code
          /\ output_rows[k].source_url = MemberRows(k)[3].source_url

\* C9: at every point of the pass the source of an entity is the priority
\* source if a row it absorbed came from it, and the source of its first row
\* otherwise; so a merge sets it exactly when the incoming row is from the
\* priority source.
C9_SourceRule ==
    \A k \in 1..Len(merged) :
        merged[k].row.source =
            IF \E n \in 1..Len(members[k]) : MemberRows(k)[n].source = SOURCE_DUBAI_CHAMBER
            THEN SOURCE_DUBAI_CHAMBER
            ELSE MemberRows(k)[1].source

C9_Witness ==
    /\ Finished
    /\ \E k \in 1..Len(merged) :
          /\ Len(members[k]) = 3
          /\ MemberRows(k)[1].source = SOURCE_DUBAI_DED
          /\ MemberRows(k)[2].source = SOURCE_DUBAI_CHAMBER
          /\ MemberRows(k)[3].source = SOURCE_SHARJAH_SEDD
          /\ output_rows[k].source = SOURCE_DUBAI_CHAMBER

\* ------------------------------------------------------ properties, merger

Called == merges > 0

\* The contact rule as the design states it.
ContactRule(existing_value, incoming_value, existing_source, incoming_source) ==
    IF existing_value = <<>> THEN incoming_value
    ELSE IF /\ existing_source # SOURCE_DUBAI_CHAMBER
            /\ incoming_source = SOURCE_DUBAI_CHAMBER
            /\ incoming_value # <<>>
    THEN incoming_value
    ELSE existing_value

\* C6: after merge_rows(existing, incoming) the phone and the email are what
\* the contact rule gives, and a phone or email that was not empty is not
\* empty.
C6_ContactRule ==
    Called =>
        /\ existing.phone =
              ContactRule(before.phone, incoming.phone, before.source, incoming.source)
        /\ existing.email =
              ContactRule(before.email, incoming.email, before.source, incoming.source)
        /\ (before.phone # <<>> => existing.phone # <<>>)
        /\ (before.email # <<>> => existing.email # <<>>)

C6_Witness ==
    /\ Called
    /\ before.source # SOURCE_DUBAI_CHAMBER
    /\ incoming.source = SOURCE_DUBAI_CHAMBER
    /\ before.phone # <<>>
    /\ incoming.phone \notin {<<>>, before.phone}
    /\ existing.phone = incoming.phone
    /\ before.email # <<>>
    /\ incoming.email = <<>>
    /\ existing.email = before.email

\* C7: after merge_rows(existing, incoming) the business activity is the
\* incoming one if the existing one was empty; else, for an incoming row of
\* the priority source, the incoming one unless it is empty; else the
\* incoming one if it is strictly longer; else the existing one.
C7_ActivityRule ==
    Called =>
        existing.business_activity =
            IF before.business_activity = <<>> THEN incoming.business_activity
            ELSE IF incoming.source = SOURCE_DUBAI_CHAMBER
            THEN (IF incoming.business_activity # <<>> THEN incoming.business_activity
                  ELSE before.business_activity)
            ELSE IF Len(incoming.business_activity) > Len(before.business_activity)
            THEN incoming.business_activity
            ELSE before.business_activity

C7_Witness ==
    /\ Called
    /\ incoming.source # SOURCE_DUBAI_CHAMBER
    /\ before.business_activity # <<>>
    /\ incoming.business_activity # before.business_activity
    /\ Len(incoming.business_activity) = Len(before.business_activity)
    /\ existing.business_activity = before.business_activity

NonEmptyStr(s) == s # <<>>

\* The tags of a notes value: its ";"-separated items, trimmed, blanks left out.
TagsOf(notes) ==
    LET items == str_split(notes, ";")
    IN  SelectSeq([k \in 1..Len(items) |-> str_strip(items[k])], NonEmptyStr)

TagSet(tags) == { tags[k] : k \in 1..Len(tags) }

FirstPos(tag, tags) == CHOOSE k \in 1..Len(tags) :
                           tags[k] = tag /\ \A j \in 1..(k - 1) : tags[j] # tag

\* C10: the notes after merge_rows(existing, incoming), cut at ";", hold no
\* empty or untrimmed tag and no tag twice; they are exactly the tags of
\* the two sides; the tags of existing come first, in the order in which
\* they first stood there, then the other tags of incoming in theirs.
C10_NotesUnion ==
    Called =>
        LET result == IF existing.notes = <<>> THEN <<>> ELSE str_split(existing.notes, ";")
            old    == TagsOf(before.notes)
            new    == TagsOf(incoming.notes)
        IN  /\ \A k \in 1..Len(result) :
                   result[k] # <<>> /\ str_strip(result[k]) = result[k]
            /\ \A j, k \in 1..Len(result) : j # k => result[j] # result[k]
            /\ TagSet(result) = TagSet(old) \cup TagSet(new)
            /\ \A j, k \in 1..Len(result) :
                   j < k =>
                      /\ result[k] \in TagSet(old) =>
                            /\ result[j] \in TagSet(old)
                            /\ FirstPos(result[j], old) < FirstPos(result[k], old)
                      /\ (result[j] \notin TagSet(old) /\ result[k] \notin TagSet(old)) =>
                            FirstPos(result[j], new) < FirstPos(result[k], new)

C10_Witness ==
    /\ Called
    /\ Len(TagsOf(before.notes)) >= 2
    /\ TagSet(TagsOf(before.notes)) \cap TagSet(TagsOf(incoming.notes)) # {}
    /\ TagSet(TagsOf(incoming.notes)) \ TagSet(TagsOf(before.notes)) # {}
    /\ Len(TagsOf(existing.notes)) >= 3

\* ------------------------------------------ properties, cleaning and output

\* s <= t in the order of the code points, character by character.
RECURSIVE LexLeq(_, _)
LexLeq(s, t) ==
    IF s = <<>> THEN TRUE
    ELSE IF t = <<>> THEN FALSE
    ELSE IF Head(s) = Head(t) THEN LexLeq(Tail(s), Tail(t))
    ELSE ord(Head(s)) < ord(Head(t))

\* C11: at every point of the pass the last_seen_utc of an entity is the
\* lexicographically greatest last_seen_utc of the rows it absorbed: it is
\* the value of one of them and none of them has a greater one, so no merge
\* moves it backwards.
C11_LastSeenGreatest ==
    \A k \in 1..Len(merged) :
        LET rows == MemberRows(k)
            last == merged[k].row.last_seen_utc
        IN  /\ \E n \in 1..Len(rows) : rows[n].last_seen_utc = last
            /\ \A n \in 1..Len(rows) : LexLeq(rows[n].last_seen_utc, last)

C11_Witness ==
    /\ Finished
    /\ \E k \in 1..Len(merged) :
          LET rows == MemberRows(k)
          IN  /\ Len(rows) = 3
              /\ rows[2].last_seen_utc = merged[k].row.last_seen_utc
              /\ rows[1].last_seen_utc # rows[2].last_seen_utc
              /\ rows[3].last_seen_utc # rows[2].last_seen_utc
              /\ rows[3].last_seen_utc # rows[1].last_seen_utc

\* The shape ^[^@\s]+@[^@\s]+\.[^@\s]+$ : no white space, two parts around
\* the one "@", the first not empty, the second with a "." that is neither
\* its first nor its last character.
EmailShape(s) ==
    LET halves == str_split(s, "@")
    IN  /\ \A k \in 1..Len(s) : s[k] # " "
        /\ Len(halves) = 2
        /\ halves[1] # <<>>
        /\ \E d \in 2..(Len(halves[2]) - 1) : halves[2][d] = "."

EmailOk(s) == s = <<>> \/ EmailShape(s)

\* C12: the email of every output row is empty or has the shape
\* ^[^@\s]+@[^@\s]+\.[^@\s]+$, and so has the email of every cleaned row and
\* of every entity at every point of the pass; a raw email that has not this
\* shape once trimmed is the email of no output row.
C12_EmailValid ==
    /\ \A i \in CleanedIdx : EmailOk(RowAt(i).email)
    /\ \A k \in 1..Len(merged) : EmailOk(merged[k].row.email)
    /\ \A k \in 1..Len(output_rows) :
          /\ EmailOk(output_rows[k].email)
          /\ \A n \in 1..Len(raw_rows) :
                ~EmailShape(str_strip(raw_rows[n].email))
                   => (output_rows[k].email = <<>>
                       \/ output_rows[k].email # str_strip(raw_rows[n].email))

C12_Witness ==
    /\ Finished
    /\ \E n \in 1..Len(raw_rows) :
          /\ str_strip(raw_rows[n].email) # <<>>
          /\ ~EmailShape(str_strip(raw_rows[n].email))
    /\ \E n \in 1..Len(raw_rows) :
          /\ raw_rows[n].email # str_strip(raw_rows[n].email)
          /\ EmailShape(str_strip(raw_rows[n].email))
    /\ \E k \in 1..Len(output_rows) :
          /\ output_rows[k].email # <<>>
          /\ Len(members[k]) >= 2
    /\ \E k \in 1..Len(output_rows) : output_rows[k].email = <<>>

NoTagTwice(tags) == \A j, k \in 1..Len(tags) : j # k => tags[j] # tags[k]

\* C13 as stated: the notes of every output row, cut at ";", hold no tag
\* twice, whether the row was merged or not and whatever its raw notes were.
C13_NoDuplicateTags ==
    Finished => \A k \in 1..Len(output_rows) : NoTagTwice(TagsOf(output_rows[k].notes))

\* C14 as stated: every cleaned row has a last_seen_utc, and every output
\* row has a non-empty one, whatever the raw values were.
C14_LastSeenPopulated ==
    /\ \A i \in CleanedIdx : RowAt(i).last_seen_utc # <<>>
    /\ \A k \in 1..Len(output_rows) : output_rows[k].last_seen_utc # <<>>

\* A raw row with a character in its company name that is not a space.
HasName(row) == \E k \in 1..Len(row.company_name) : row.company_name[k] # " "

\* The raw rows the first loop has taken and kept, in their order: the row
\* at position i of cleaned was the raw row KeptRaw[i + 1].
KeptRaw == SelectSeq(SubSeq(raw_rows, 1, ci), HasName)

RawAt(i) == KeptRaw[i + 1]

\* C15: a raw row whose company name is empty once trimmed is left out of
\* cleaned, so no key is built from it and no entity absorbs it: the cleaned
\* rows are the other raw rows, in their order, each with its trimmed name,
\* and they alone are counted and absorbed; nothing is logged for the row
\* left out; every entity and every output row has a company name that is
\* not empty.
C15_NamelessDropped ==
    /\ Len(cleaned) = Len(KeptRaw)
    /\ \A i \in CleanedIdx :
          /\ RowAt(i).company_name # <<>>
          /\ RowAt(i).company_name = str_strip(RawAt(i).company_name)
          /\ RowAt(i).source = RawAt(i).source
          /\ RowAt(i).activity_code = RawAt(i).activity_code
    /\ \A k \in 1..Len(members) : \A n \in 1..Len(members[k]) :
          members[k][n] \in CleanedIdx
    /\ \A k \in 1..Len(merged) : merged[k].row.company_name # <<>>
    /\ Len(output_rows) <= Len(KeptRaw)
    /\ pc \in {"clean", "merge"} => warnings = <<>>
    /\ \A k \in 1..Len(output_rows) : output_rows[k].company_name # <<>>

C15_Witness ==
    /\ Finished
    /\ Len(raw_rows) = 3
    /\ HasName(raw_rows[1]) /\ ~HasName(raw_rows[2]) /\ HasName(raw_rows[3])
    /\ Len(output_rows) = 2

\* The tags without the later copies of a tag.
RECURSIVE Once(_)
Once(tags) ==
    IF tags = <<>> THEN <<>>
    ELSE LET front == Once(SubSeq(tags, 1, Len(tags) - 1))
             last  == tags[Len(tags)]
         IN  IF last \in TagSet(front) THEN front ELSE Append(front, last)

\* The email of the raw row kept at position i, trimmed: what validation is
\* given.
OriginalEmail(i) == str_strip(RawAt(i).email)

\* Validation emptied the email of the row at position i.
Nulled(i) == OriginalEmail(i) # <<>> /\ RowAt(i).email = <<>>

\* C16: cleaning gives a row the tag email_invalid_removed exactly when its
\* email, as given to validation, was not empty and came back empty: then
\* its notes are its raw tags, each once, with the tag after them unless it
\* was among them, so the tag stands there once; the notes of a row with a
\* valid or an empty email are left as they were read.
C16_InvalidEmailTag ==
    \A i \in CleanedIdx :
        LET raw_tags == Once(TagsOf(RawAt(i).notes))
            tags     == TagsOf(RowAt(i).notes)
        IN  /\ Nulled(i) <=> (OriginalEmail(i) # <<>> /\ ~EmailShape(OriginalEmail(i)))
            /\ Nulled(i) =>
                  /\ tags = IF TagInvalid \in TagSet(raw_tags) THEN raw_tags
                            ELSE Append(raw_tags, TagInvalid)
                  /\ Cardinality({ k \in 1..Len(tags) : tags[k] = TagInvalid }) = 1
            /\ ~Nulled(i) => RowAt(i).notes = RawAt(i).notes

C16_Witness ==
    /\ pc = "merge"
    /\ \E i, j, l \in CleanedIdx :
          /\ Nulled(i) /\ TagInvalid \in TagSet(TagsOf(RawAt(i).notes))
          /\ Nulled(j) /\ RawAt(j).notes = <<>> /\ RowAt(j).notes = TagInvalid
          /\ ~Nulled(l) /\ RawAt(l).email # <<>> /\ RowAt(l).email = <<>>

\* C17: a run with no raw row writes no output file and logs one warning,
\* the one of the missing input, and then it has ended: it cleans nothing,
\* merges nothing and logs no coverage warning.
C17_NoInput ==
    raw_rows = <<>> =>
        /\ pc \in {"start", "done"}
        /\ ~written
        /\ output_rows = <<>>
        /\ ci = 0 /\ cleaned = <<>>
        /\ source_counts = EmptyCounter /\ chamber_code_counts = EmptyCounter
        /\ idx = 0 /\ merged = <<>> /\ seen_exact = {}
        /\ warnings = IF pc = "done"
                      THEN <<[level |-> "warning", msg |-> "no_raw_csv"]>> ELSE <<>>

C17_Witness ==
    /\ raw_rows = <<>>
    /\ pc = "done"
    /\ Len(warnings) = 1
    /\ Len(chamber_codes) = 2

\* The coverage warnings logged for a code.
WarningsFor(code) ==
    { w \in 1..Len(warnings) :
        warnings[w] = [level |-> "warning", msg |-> "no_rows_for_code", code |-> code] }

\* An output row carries the code.
InOutput(code) == \E k \in 1..Len(output_rows) : output_rows[k].activity_code = code

\* A cleaned row of the chamber source carries the code.
Captured(code) ==
    \E i \in CleanedIdx :
        RowAt(i).source = SOURCE_DUBAI_CHAMBER /\ RowAt(i).activity_code = code

RawMembers(k) == { RawAt(members[k][n]) : n \in 1..Len(members[k]) }

\* The tags cleaning can give the notes of the rows of output row k.
CleaningTags(k) ==
    IF \E n \in 1..Len(members[k]) : Nulled(members[k][n]) THEN {TagInvalid} ELSE {}

\* C19: in every output row the value of a field other than notes is
\* empty or the trimmed value that field had in a raw row its entity
\* absorbed (for last_seen_utc also the time stamped at cleaning), and every
\* tag of its notes is a tag of the raw notes of such a row or the tag
\* cleaning gave one of them.
C19_NothingNew ==
    Finished =>
        \A k \in 1..Len(output_rows) :
            /\ \A col \in OUTPUT_COLUMNS \ {"notes", "last_seen_utc"} :
                  \/ output_rows[k][col] = <<>>
                  \/ \E r \in RawMembers(k) : output_rows[k][col] = str_strip(r[col])
            /\ \/ output_rows[k].last_seen_utc = <<>>
               \/ output_rows[k].last_seen_utc \in NowValues
               \/ \E r \in RawMembers(k) :
                     output_rows[k].last_seen_utc = str_strip(r.last_seen_utc)
            /\ \A tag \in TagSet(TagsOf(output_rows[k].notes)) :
                  \/ tag \in CleaningTags(k)
                  \/ \E r \in RawMembers(k) : tag \in TagSet(TagsOf(r.notes))

C19_Witness ==
    /\ Finished
    /\ \E k \in 1..Len(output_rows) :
          /\ Len(members[k]) >= 2
          /\ output_rows[k].phone # <<>>
          /\ TagInvalid \in TagSet(TagsOf(output_rows[k].notes))
          /\ \E tag \in TagSet(TagsOf(output_rows[k].notes)) :
                /\ tag # TagInvalid
                /\ tag \notin TagSet(TagsOf(RawAt(members[k][1]).notes))

\* The fields of the exact signature as the cleaned row at position i has
\* them.
SigFields(i) ==
    << RowAt(i).company_name, RowAt(i).email, RowAt(i).phone, RowAt(i).business_activity,
       RowAt(i).source, RowAt(i).activity_code, RowAt(i).source_url, RowAt(i).emirate >>

Folded(s) == str_strip(str_lower(s))

\* The same fields normalized: the name and the phone by their normalizers,
\* the others trimmed and in lower case.
NormFields(i) ==
    << NameOf(i), MailOf(i), PhoneOf(i), Folded(RowAt(i).business_activity),
       Folded(RowAt(i).source), Folded(RowAt(i).activity_code),
       Folded(RowAt(i).source_url), Folded(RowAt(i).emirate) >>

\* The rows the second loop has taken and skipped as exact duplicates.
Skipped(i) == i < idx /\ Holders(i) = {}

\* C20 as stated: a row is skipped only when an earlier row has exactly its
\* values in the fields of the signature.
C20_ExactOnly_AsStated ==
    \A i \in CleanedIdx :
        Skipped(i) => \E f \in 0..(i - 1) : SigFields(f) = SigFields(i)

\* C20, amended: a row is skipped exactly when an earlier row has its
\* values in the fields of the signature once they are normalized; two
\* rows that differ in a normalized field are not skipped one for the other,
\* and every row not skipped is absorbed by one entity.
C20_ExactOnly ==
    \A i \in CleanedIdx :
        i < idx =>
            /\ Skipped(i) <=> \E f \in 0..(i - 1) : NormFields(f) = NormFields(i)
            /\ ~Skipped(i) => Cardinality(Holders(i)) = 1

C20_Witness ==
    /\ Finished
    /\ \E f, i, j \in CleanedIdx :
          /\ f < i /\ Skipped(i)
          /\ SigFields(f) # SigFields(i) /\ NormFields(f) = NormFields(i)
          /\ f < j /\ ~Skipped(j)
          /\ NameOf(f) = NameOf(j) /\ NormFields(f) # NormFields(j)

\* ------------------------------------------- properties, helpers of utils

\* C21: normalize_company_name returns a value for every string, the empty
\* string for the empty string, and returns what it returned when it is
\* called on that.
C21_NameIdempotent ==
    fn = "normalize_company_name" =>
        /\ twice = returned
        /\ value = <<>> => returned = <<>>

C21_Witness ==
    /\ fn = "normalize_company_name"
    /\ Len(value) = 3 /\ value[1] = "A" /\ value[2] = "&" /\ value[3] = "b"
    /\ returned = <<"a", " ", "b">>
    /\ twice = returned

\* C22 as stated: validate_email returns the empty string or its argument
\* as it was given, and returns what it returned when called on that.
C22_EmailUnchanged_AsStated ==
    fn = "validate_email" =>
        /\ returned = <<>> \/ returned = value
        /\ twice = returned

\* C22, amended: validate_email returns the empty string or its argument
\* without the white space at its ends, and returns what it returned when
\* called on that.
C22_EmailUnchanged ==
    fn = "validate_email" =>
        /\ returned = <<>> \/ returned = str_strip(value)
        /\ twice = returned

C22_Witness ==
    /\ fn = "validate_email"
    /\ returned # <<>>
    /\ returned # value
    /\ value[1] = " "

\* The digits of s, in their order.
RECURSIVE DigitsOf(_)
DigitsOf(s) ==
    IF s = <<>> THEN <<>>
    ELSE (IF Head(s) \in {"0","1","2","3","4","5","6","7","8","9"} THEN <<Head(s)>> ELSE <<>>)
         \o DigitsOf(Tail(s))

\* s begins with the characters of p.
Begins(s, p) == Len(s) >= Len(p) /\ \A k \in 1..Len(p) : s[k] = p[k]

\* s without its first n characters.
Drop(s, n) == SubSeq(s, n + 1, Len(s))

\* C23: normalize_phone returns the empty string for a string without a
\* digit, and otherwise "+" and the digits of the string in their order, with
\* 971 in the place of 00971 when the digits begin with that; it gives
\* +97150123456 for 0097150123456, +0501234567 for 050-123-4567 and the
\* empty string for the empty string.
C23_PhoneRule ==
    fn = "normalize_phone" =>
        LET digits == DigitsOf(value)
        IN  /\ digits = <<>> => returned = <<>>
            /\ (digits # <<>> /\ Begins(digits, <<"0","0","9","7","1">>))
                  => returned = <<"+","9","7","1">> \o Drop(digits, 5)
            /\ (digits # <<>> /\ ~Begins(digits, <<"0","0","9","7","1">>))
                  => returned = <<"+">> \o digits
            /\ value = Phone0097150123456
                  => returned = <<"+","9","7","1","5","0","1","2","3","4","5","6">>
            /\ value = Phone050_123_4567
                  => returned = <<"+","0","5","0","1","2","3","4","5","6","7">>

C23_Witness ==
    /\ fn = "normalize_phone"
    /\ value = <<"0","0","-","9","7","1","5","-","0">>
    /\ returned = <<"+","9","7","1","5","0">>

\* ------------------------------------------ properties, identity and order

FromChamber(row) == row.source = SOURCE_DUBAI_CHAMBER

\* C24 as stated: when the run has ended, an entity that absorbed a
\* dubai_chamber row with a phone has the phone of a dubai_chamber row it
\* absorbed, and likewise for the email, in whatever order the rows came.
C24_PriorityContact ==
    Finished =>
        \A k \in 1..Len(merged) :
            LET rows == MemberRows(k)
            IN  /\ (\E n \in 1..Len(rows) : FromChamber(rows[n]) /\ rows[n].phone # <<>>)
                      => \E n \in 1..Len(rows) :
                            FromChamber(rows[n]) /\ rows[n].phone = output_rows[k].phone
                /\ (\E n \in 1..Len(rows) : FromChamber(rows[n]) /\ rows[n].email # <<>>)
                      => \E n \in 1..Len(rows) :
                            FromChamber(rows[n]) /\ rows[n].email = output_rows[k].email

\* The name-based key of the priority rule for a row, empty if the rule
\* gives it none.
NameKeyOf(row) ==
    LET name  == normalize_company_name(row.company_name)
        mail  == str_strip(str_lower(row.email))
        phone == normalize_phone(row.phone)
    IN  IF name # <<>> /\ mail # <<>> THEN name \o <<"|">> \o mail
        ELSE IF name # <<>> /\ phone # <<>> THEN name \o <<"|">> \o phone
        ELSE <<>>

\* The entity at position k of merged was stored under a name-based key:
\* its first row has a name and an email or a phone.
NameKeyed(k) == NameKeyOf(RowAt(members[k][1])) # <<>>

\* C25: at every point of the pass the key built from the current
\* company_name, email and phone of an entity stored under a name-based key
\* is the key it is stored under, no two entities are stored under one key,
\* and the keys built from the output rows of such entities are their keys
\* too, hence pairwise distinct.
C25_KeyStable ==
    /\ \A k \in 1..Len(merged) : NameKeyed(k) => NameKeyOf(merged[k].row) = merged[k].key
    /\ \A j, k \in 1..Len(merged) : j # k => merged[j].key # merged[k].key
    /\ \A k \in 1..Len(output_rows) : NameKeyed(k) => NameKeyOf(output_rows[k]) = merged[k].key
    /\ \A j, k \in 1..Len(output_rows) :
          (j # k /\ NameKeyed(j) /\ NameKeyed(k))
             => NameKeyOf(output_rows[j]) # NameKeyOf(output_rows[k])

C25_Witness ==
    /\ Finished
    /\ Len(output_rows) >= 2
    /\ \E k \in 1..Len(merged) :
          /\ NameKeyed(k)
          /\ Len(members[k]) >= 2
          /\ merged[k].row.email # RowAt(members[k][1]).email
          /\ merged[k].row.phone # RowAt(members[k][1]).phone

\* The fallback key of the row at position i.
FallbackKey(i) == <<"u","n","i","q","u","e","|">> \o int_str(i)

\* The rule gives the row at position i no name-based key.
HasFallback(i) == NameKeyOf(RowAt(i)) = <<>>

\* C26: the fallback key of a position is the name-based key of no row and
\* the fallback key of no other position, and a row that is given a
\* fallback key is the only row of the entity stored under it: no row is
\* merged into it and it is merged into none.
C26_FallbackAlone ==
    /\ \A i, j \in CleanedIdx :
          /\ NameKeyOf(RowAt(j)) # FallbackKey(i)
          /\ i # j => FallbackKey(i) # FallbackKey(j)
    /\ \A k \in 1..Len(merged) : \A n \in 1..Len(members[k]) :
          HasFallback(members[k][n]) =>
              /\ members[k] = <<members[k][n]>>
              /\ merged[k].key = FallbackKey(members[k][n])
              /\ merged[k].row = RowAt(members[k][n])

C26_Witness ==
    /\ Finished
    /\ \E i, j \in CleanedIdx :
          /\ HasFallback(i) /\ Holders(i) # {}
          /\ NameOf(i) = <<"u","n","i","q","u","e">>
          /\ ~HasFallback(j) /\ Holders(j) # {}
          /\ NameOf(j) = NameOf(i)
          /\ RowAt(j).phone = int_str(i)
    /\ \E i \in CleanedIdx : HasFallback(i) /\ NameOf(i) = <<>> /\ Holders(i) # {}

\* ---------------------------------------------------- properties, scrapers

\* C27 as stated: with --max-pages N, N > 0, no page loop of any of the
\* three scrapers reads more than N result pages for one search term.
C27_MaxPages ==
    max_pages > 0 => pages_read <= max_pages

====
